---- MODULE Spec2Model ----
(***************************************************************************)
(* ttl-flat-cache: a key-value cache with optional per-entry time-to-live, *)
(* layered on a persisted key-value store (flat-cache).                    *)
(*                                                                         *)
(* Spec        models class Cache of src/src/index.ts.                     *)
(* SpecLegacy  models class Cache of src/unnamed/part_000 (the CommonJS    *)
(*             implementation), which differs in its constructor, in       *)
(*             __invalidateKey's fall-through return, in del's return      *)
(*             value, in all() and in having no destroy().                 *)
(*                                                                         *)
(* SpecInstances    models several Cache objects of index.ts over one file  *)
(*                  system: construction loads the cache file, save writes  *)
(*                  it, destroy removes it.                                 *)
(* SpecConstructor  models the two constructors alone, over every          *)
(*                  combination of the ns, dir and ttl options.            *)
(*                                                                         *)
(* Time is counted in whole seconds.  The persisted store itself          *)
(* (flat-cache) is not part of the source tree; it is modelled from the    *)
(* collaborator contract of section 6 of the specification (getEntry /     *)
(* setEntry / removeEntry / allEntries / persist / destroy).  Of the       *)
(* backing file Spec and SpecLegacy keep whether it exists: its content is *)
(* read only by load(), which no operation of a constructed instance       *)
(* calls; SpecInstances keeps the content.                                 *)
(***************************************************************************)
EXTENDS Integers, FiniteSets, Sequences, TLC

\* ------------------------------------------------------------------ bounds
MaxTime == 2
MaxTTL == 1

Keys == {"a", "b"}
Values == {"v1", "v2"}

\* ------------------------------------------------------- JavaScript values
\* A JavaScript value as the cache's callers pass and receive it.
Undefined == [kind |-> "undefined", val |-> "", n |-> 0]
Null == [kind |-> "null", val |-> "", n |-> 0]
NonNumeric == [kind |-> "nan", val |-> "abc", n |-> 0]
Num(i) == [kind |-> "num", val |-> "", n |-> i]
Str(s) == [kind |-> "string", val |-> s, n |-> 0]
Bool(b) == [kind |-> "bool", val |-> IF b THEN "true" ELSE "false", n |-> 0]
Val(v) == [kind |-> "value", val |-> v, n |-> 0]
\* An option the caller's options object does not have.
Absent == [kind |-> "absent", val |-> "", n |-> 0]

\* The numbers tried as a ttl: a negative one, zero and MaxTTL.
TTLNumbers == {0 - 1, 0, MaxTTL}
\* The ttl arguments of set: absent (undefined) or a number.
TTLInputs == {Undefined} \cup {Num(i) : i \in TTLNumbers}
\* The ttl options of the constructor: absent, undefined, null, a
\* non-numeric string or a number.
TTLOptions == {Absent, Undefined, Null, NonNumeric} \cup {Num(i) : i \in TTLNumbers}

\* isNaN(Number(val)): Number(undefined) and Number("abc") are NaN,
\* Number(null) is 0.
IsNaNNumber(val) == val.kind \in {"undefined", "nan"}
NumberOf(val) == IF val.kind = "num" THEN val.n ELSE 0

to_num(val) == IF ~IsNaNNumber(val) THEN NumberOf(val) ELSE 0

\* ----------------------------------------------------------- cache entries
\* The envelope {expires, value}; expires is a Date or null.
NoExpires == [kind |-> "null", t |-> 0]
Date(t) == [kind |-> "date", t |-> t]
\* A Date read back from the cache file: JSON keeps it as its ISO string.
ISOString(t) == [kind |-> "iso", t |-> t]
Entry(expires, value) == [expires |-> expires, value |-> value]
\* if (expires), data.expires: a Date and a non-empty string are truthy,
\* null is not.
truthy(expires) == expires.kind # "null"
\* dayjs(expires): the instant of a Date, or the instant an ISO string
\* parses to.
dayjs(expires) == expires.t

\* ------------------------------------------------------- persisted store
\* The store's in-memory mapping is a function from the keys present to
\* their entries.
EmptyStore == [k \in {} |-> Entry(NoExpires, "v1")]
hasKey(s, key) == key \in DOMAIN s
getKey(s, key) == s[key]
setKey(s, key, data) == [k \in (DOMAIN s) \cup {key} |-> IF k = key THEN data ELSE s[k]]
removeKey(s, key) == [k \in (DOMAIN s) \ {key} |-> s[k]]
\* removeEntry(key) -> boolean: true if a key was present and removed.
removeKey_ret(s, key) == Bool(hasKey(s, key))
\* allEntries: a snapshot of the mapping, not the live mapping.
storeAll(s) == s

VARIABLES
    now,         \* the wall clock, in seconds
    defaultTTL,  \* this.defaultTTL: a number or null
    store,       \* the entries the persisted store holds in memory
    fileExists,  \* whether the store's backing file exists
    ref,         \* per key: the most recent set not undone by del or destroy
    last,        \* the most recent call (or clock advance) and its result
    instances,   \* the Cache objects of the several-instance specifications
    files        \* the cache files on disk, by directory and namespace
vars == <<now, defaultTTL, store, fileExists, ref, last, instances, files>>

\* ------------------------------------------------------------- constructor
\* const { ns = "default", dir, ttl } = options: an absent option reads as
\* undefined.
options_ttl(opt) == IF opt = Absent THEN Undefined ELSE opt
\* this.defaultTTL = !isNaN(Number(ttl)) ? Number(ttl) : null
constructor_defaultTTL(opt) ==
    IF ~IsNaNNumber(options_ttl(opt)) THEN Num(NumberOf(options_ttl(opt))) ELSE Null

\* ------------------------------------------------------------ isExpired
\* dayjs.duration(ms).humanize(true) for the spans of the model (all below
\* 45 seconds): "in a few seconds" for a positive span, "a few seconds ago"
\* otherwise.
humanize(diff) == IF diff > 0 THEN "in a few seconds" ELSE "a few seconds ago"

\* isExpired taking only a Date object, not its ISO string, as an expiry.
isExpired_dates_only(expires, t) == IF expires.kind = "date" THEN t > expires.t ELSE FALSE

\* isExpired with the comparison made non-strict.
isExpired_not_before(expires, t) == IF truthy(expires) THEN t >= dayjs(expires) ELSE FALSE

\* isExpired(expires): now.isAfter(exp) when expires is set, else false.
isExpired(expires, t) == IF truthy(expires) THEN t > dayjs(expires) ELSE FALSE

\* isExpired(expires, true): the remaining time as a relative-time string.
isExpired_returnTTL(expires, t) ==
    IF truthy(expires) THEN Str(humanize(dayjs(expires) - t)) ELSE Bool(FALSE)

\* ---------------------------------------------------------- invalidateKey
\* invalidateKey renewing the expiry of a live entry it reads.
invalidateKey_store_slides(s, key, t) ==
    IF hasKey(s, key) /\ truthy(getKey(s, key).expires)
    THEN IF isExpired(getKey(s, key).expires, t)
         THEN removeKey(s, key)
         ELSE setKey(s, key, Entry(Date(t + MaxTTL), getKey(s, key).value))
    ELSE s

\* invalidateKey removing every expired key, not only the one asked for.
invalidateKey_store_sweeps(s, key, t) ==
    [k \in {j \in DOMAIN s : ~isExpired(s[j].expires, t)} |-> s[k]]

\* invalidateKey without its removeKey call.
invalidateKey_store_keeps(s, key, t) == s

\* The store after invalidateKey(key) at time t.
invalidateKey_store(s, key, t) ==
    IF hasKey(s, key) /\ truthy(getKey(s, key).expires)
    THEN IF isExpired(getKey(s, key).expires, t) THEN removeKey(s, key) ELSE s
    ELSE s

\* invalidateKey returning null on every path.
invalidateKey_null(s, key, t) == Null

\* What invalidateKey(key) returns at time t.
invalidateKey(s, key, t) ==
    IF hasKey(s, key) /\ truthy(getKey(s, key).expires)
    THEN IF isExpired(getKey(s, key).expires, t)
         THEN Null
         ELSE LET remainingTTL == isExpired_returnTTL(getKey(s, key).expires, t)
              IN  IF remainingTTL.val # "" THEN remainingTTL ELSE Null
    ELSE Null

\* ------------------------------------------------------------------- set
\* effectiveTTL with the operands of || swapped: the default wins.
effectiveTTL_default_first(ttlArg, dflt) ==
    IF to_num(dflt) # 0 THEN to_num(dflt) ELSE to_num(ttlArg)

\* const effectiveTTL = to_num(ttl) || to_num(this.defaultTTL)
effectiveTTL(ttlArg, dflt) == IF to_num(ttlArg) # 0 THEN to_num(ttlArg) ELSE to_num(dflt)

\* set_data without the "effectiveTTL ? ... : null" guard.
set_data_always_dated(value, ttlArg, dflt, t) ==
    Entry(Date(t + effectiveTTL(ttlArg, dflt)), value)

\* The envelope set() stores at time t.
set_data(value, ttlArg, dflt, t) ==
    Entry(IF effectiveTTL(ttlArg, dflt) # 0
          THEN Date(t + effectiveTTL(ttlArg, dflt))
          ELSE NoExpires,
          value)

\* ------------------------------------------------------------------- get
\* What get(key) returns at time t: the value left after invalidateKey.
get_ret(s, key, t) ==
    IF hasKey(invalidateKey_store(s, key, t), key)
    THEN Val(getKey(invalidateKey_store(s, key, t), key).value)
    ELSE Null

\* ------------------------------------------------------------------- del
\* del(key): void.
del_ret(s, key) == Undefined

\* ------------------------------------------------------------------- all
\* The keys of the snapshot that all() finds expired at time t.
all_expired(s, t) == {k \in DOMAIN storeAll(s) : isExpired(storeAll(s)[k].expires, t)}
\* all() unwrapping in the store's own mapping: the live entries lose their
\* envelope.
all_store_unwraps(s, t) ==
    [k \in (DOMAIN s) \ all_expired(s, t) |-> Entry(NoExpires, s[k].value)]

\* The store after all(): every expired key removed, nothing else touched.
all_store(s, t) == [k \in (DOMAIN s) \ all_expired(s, t) |-> s[k]]
\* all() returning an expired key mapped to null instead of deleting it.
all_ret_keeps_expired(s, t) ==
    [k \in DOMAIN storeAll(s) |->
        IF isExpired(storeAll(s)[k].expires, t) THEN Null ELSE Val(storeAll(s)[k].value)]

\* The mapping all() returns: expired keys deleted, the others unwrapped.
all_ret(s, t) ==
    [k \in (DOMAIN storeAll(s)) \ all_expired(s, t) |-> Val(storeAll(s)[k].value)]

\* ------------------------------------------------- bookkeeping of the calls
\* last: the most recent call, its key, the keys the store held when it was
\* made, what it returned and, for all(), the mapping returned; a clock
\* advance is recorded as "tick", so last is always a call made at the
\* current instant.  ref[k]: the value, ttl argument and
\* instant of the most recent set(k) not followed by del(k) or destroy, with
\* the expiry instant that set stored.
EmptyMap == [k \in {} |-> Null]
EmptyRef == [k \in {} |-> [value |-> "v1", ttl |-> Undefined, at |-> 0, expires |-> NoExpires]]
Call(op, key, ret, map) ==
    [op |-> op, key |-> key, present |-> DOMAIN store, ret |-> ret, map |-> map]
NoCall == [op |-> "new", key |-> "", present |-> {}, ret |-> Undefined, map |-> EmptyMap]

\* No instance and no file: the state of the several-instance variables in
\* the single-instance specifications.
NoInstances == [i \in {} |-> Null]
NoFiles == [p \in {} |-> EmptyStore]

\* ----------------------------------------------------------------- actions
InitWith(dflt) ==
    /\ now = 0
    /\ defaultTTL = dflt
    /\ store = EmptyStore
    /\ fileExists = FALSE
    /\ ref = EmptyRef
    /\ last = NoCall
    /\ instances = NoInstances
    /\ files = NoFiles

\* A cache constructed on a fresh namespace, with any ttl option.
Init == \E opt \in TTLOptions : InitWith(constructor_defaultTTL(opt))

\* The wall clock advances by one second.
Tick ==
    /\ now < MaxTime
    /\ now' = now + 1
    /\ last' = Call("tick", "", Undefined, EmptyMap)
    /\ UNCHANGED <<defaultTTL, store, fileExists, ref, instances, files>>

set_call(key, value, ttlArg) ==
    /\ store' = setKey(store, key, set_data(value, ttlArg, defaultTTL, now))
    /\ ref' = setKey(ref, key, [value |-> value, ttl |-> ttlArg, at |-> now,
                                expires |-> set_data(value, ttlArg, defaultTTL, now).expires])
    /\ last' = Call("set", key, Undefined, EmptyMap)
    /\ UNCHANGED <<now, defaultTTL, fileExists, instances, files>>

get_call(key) ==
    /\ store' = invalidateKey_store(store, key, now)
    /\ last' = Call("get", key, get_ret(store, key, now), EmptyMap)
    /\ UNCHANGED <<now, defaultTTL, fileExists, ref, instances, files>>

del_call(key) ==
    /\ store' = removeKey(store, key)
    /\ ref' = removeKey(ref, key)
    /\ last' = Call("del", key, del_ret(store, key), EmptyMap)
    /\ UNCHANGED <<now, defaultTTL, fileExists, instances, files>>

ttl_call(key) ==
    /\ store' = invalidateKey_store(store, key, now)
    /\ last' = Call("ttl", key, invalidateKey(store, key, now), EmptyMap)
    /\ UNCHANGED <<now, defaultTTL, fileExists, ref, instances, files>>

set == \E key \in Keys, value \in Values, ttlArg \in TTLInputs : set_call(key, value, ttlArg)

get == \E key \in Keys : get_call(key)

del == \E key \in Keys : del_call(key)

ttl == \E key \in Keys : ttl_call(key)

all ==
    /\ store' = all_store(store, now)
    /\ last' = Call("all", "", Undefined, all_ret(store, now))
    /\ UNCHANGED <<now, defaultTTL, fileExists, ref, instances, files>>

\* save(noPrune): the store persists its mapping; the mapping is unchanged.
save ==
    /\ fileExists' = TRUE
    /\ last' = Call("save", "", Undefined, EmptyMap)
    /\ UNCHANGED <<now, defaultTTL, store, ref, instances, files>>

destroy ==
    /\ store' = EmptyStore
    /\ fileExists' = FALSE
    /\ ref' = EmptyRef
    /\ last' = Call("destroy", "", Undefined, EmptyMap)
    /\ UNCHANGED <<now, defaultTTL, instances, files>>

Next == Tick \/ set \/ get \/ del \/ ttl \/ all \/ save \/ destroy

Spec == Init /\ [][Next]_vars

\* ------------------------------------------- the CommonJS implementation
\* options = Object.assign({ ns: "default", ttl: null }, options): an absent
\* ttl option reads as null, an option given as undefined stays undefined.
legacy_options_ttl(opt) == IF opt = Absent THEN Null ELSE opt
\* this.defaultTTL = isNaN(Number(ttl)) ? null : Number(ttl)
legacy_constructor_defaultTTL(opt) ==
    IF IsNaNNumber(legacy_options_ttl(opt))
    THEN Null
    ELSE Num(NumberOf(legacy_options_ttl(opt)))

\* What __invalidateKey(key) returns: as invalidateKey, but the function
\* ends without a return when the key is absent or has no expiry.
legacy_invalidateKey(s, key, t) ==
    IF hasKey(s, key) /\ truthy(getKey(s, key).expires)
    THEN IF isExpired(getKey(s, key).expires, t)
         THEN Null
         ELSE LET remainingTTL == isExpired_returnTTL(getKey(s, key).expires, t)
              IN  IF remainingTTL.val # "" THEN remainingTTL ELSE Null
    ELSE Undefined

\* del(key) returns what the store's removeKey returns.
legacy_del_ret(s, key) == removeKey_ret(s, key)

\* The store after all(): every expired key removed.
legacy_all_store(s, t) == [k \in (DOMAIN s) \ all_expired(s, t) |-> s[k]]
\* The mapping all() returns: an expired key is set to null, not deleted.
legacy_all_ret(s, t) ==
    [k \in DOMAIN storeAll(s) |->
        IF isExpired(storeAll(s)[k].expires, t) THEN Null ELSE Val(storeAll(s)[k].value)]

InitLegacy == \E opt \in TTLOptions : InitWith(legacy_constructor_defaultTTL(opt))

legacy_del_call(key) ==
    /\ store' = removeKey(store, key)
    /\ ref' = removeKey(ref, key)
    /\ last' = Call("del", key, legacy_del_ret(store, key), EmptyMap)
    /\ UNCHANGED <<now, defaultTTL, fileExists, instances, files>>

legacy_ttl_call(key) ==
    /\ store' = invalidateKey_store(store, key, now)
    /\ last' = Call("ttl", key, legacy_invalidateKey(store, key, now), EmptyMap)
    /\ UNCHANGED <<now, defaultTTL, fileExists, ref, instances, files>>

legacy_del == \E key \in Keys : legacy_del_call(key)

legacy_ttl == \E key \in Keys : legacy_ttl_call(key)

legacy_all ==
    /\ store' = legacy_all_store(store, now)
    /\ last' = Call("all", "", Undefined, legacy_all_ret(store, now))
    /\ UNCHANGED <<now, defaultTTL, fileExists, ref, instances, files>>

\* clearAll(): flatCache.clearAll(dir) removes the cache files of the
\* directory; the instance's in-memory entries stay.
clearAll ==
    /\ fileExists' = FALSE
    /\ last' = Call("clearAll", "", Undefined, EmptyMap)
    /\ UNCHANGED <<now, defaultTTL, store, ref, instances, files>>

\* clearCacheById(): flatCache.clearCacheById(ns, dir) removes this
\* namespace's cache file; the instance's in-memory entries stay.
clearCacheById ==
    /\ fileExists' = FALSE
    /\ last' = Call("clearCacheById", "", Undefined, EmptyMap)
    /\ UNCHANGED <<now, defaultTTL, store, ref, instances, files>>

\* get, set and save read the same in both implementations.
NextLegacy ==
    Tick \/ set \/ get \/ legacy_del \/ legacy_ttl \/ legacy_all \/ save
        \/ clearAll \/ clearCacheById

SpecLegacy == InitLegacy /\ [][NextLegacy]_vars

\* ------------------------------------------------------ several instances
\* The Cache objects that may be constructed.
InstanceIds == {"c1", "c2"}
\* Paths are sequences of segments.  os.tmpdir():
tmpdir == <<"tmp">>
\* A directory whose parent exists and one whose parent does not.
DataDir == <<"data", "cache">>
MissingDir == <<"missing", "cache">>
ExistingDirs == {<<"data">>, tmpdir}
\* fs.existsSync(p)
existsSync(p) == p \in ExistingDirs
\* path.dirname(p)
dirname(p) == SubSeq(p, 1, Len(p) - 1)
\* path.join(p, "cache", ns): an empty segment adds nothing.
join(p, segment, ns) == IF ns = "" THEN Append(p, segment) ELSE Append(Append(p, segment), ns)

\* The options objects passed to the constructor.
NsOptions == {Absent, Str("n1"), Str("n2")}
DirOptions == {Absent, DataDir, MissingDir}
Options(nss, dirs, ttls) == [ns : nss, dir : dirs, ttl : ttls]

\* The file the store of (ns, dir) is kept in: dir/ns.
cacheFile(ns, dir) == Append(dir, ns)
\* The store's mapping as the file's JSON text holds it: a Date is written
\* as its ISO string, a string and null as they are.
toJSON(expires) == IF expires.kind = "date" THEN ISOString(expires.t) ELSE expires
stringify(s) == [k \in DOMAIN s |-> Entry(toJSON(s[k].expires), s[k].value)]
\* flatCache.load(ns, dir): the parsed content of the file, or an empty
\* mapping when there is no file.
load(fs, ns, dir) ==
    IF cacheFile(ns, dir) \in DOMAIN fs THEN fs[cacheFile(ns, dir)] ELSE EmptyStore
\* The files after the store of (ns, dir) holding mapping s is persisted.
writeFile(fs, ns, dir, s) ==
    [f \in (DOMAIN fs) \cup {cacheFile(ns, dir)} |->
        IF f = cacheFile(ns, dir) THEN stringify(s) ELSE fs[f]]
\* The files after the store of (ns, dir) is destroyed.
removeCacheFile(fs, ns, dir) == [f \in (DOMAIN fs) \ {cacheFile(ns, dir)} |-> fs[f]]

\* options_ns ignoring the option.
options_ns_ignored(opt) == "default"

\* const { ns = "default", ... } = options
options_ns(opt) == IF opt = Absent THEN "default" ELSE opt.val

\* const cacheDir = dir && fs.existsSync(path.dirname(dir))
\*     ? dir : path.join(os.tmpdir(), "cache", ns)
constructor_cacheDir(dir, ns) ==
    IF dir # Absent /\ existsSync(dirname(dir)) THEN dir ELSE join(tmpdir, "cache", ns)

\* new Cache(options) over the files fs: the object's fields, with the
\* options it was given.
constructor(fs, options) ==
    LET ns == options_ns(options.ns)
        cacheDir == constructor_cacheDir(options.dir, ns)
    IN  [options |-> options,
         ns |-> ns,
         dir |-> cacheDir,
         defaultTTL |-> constructor_defaultTTL(options.ttl),
         cache |-> load(fs, ns, cacheDir)]

\* ns = ns || "default", after Object.assign({ ns: "default", ... }, options)
legacy_options_ns(opt) == IF opt = Absent \/ opt.val = "" THEN "default" ELSE opt.val

\* dir = dir && fs.existsSync(path.dirname(dir)) ? dir : null;
\* dir = path.join(os.tmpdir(), "cache", ns);
legacy_constructor_dir(dir, ns) ==
    LET dir1 == IF dir # Absent /\ existsSync(dirname(dir)) THEN dir ELSE <<>>
        dir2 == join(tmpdir, "cache", ns)
    IN  dir2

\* The CommonJS factory: module.exports = (options = {}) => new Cache(options).
legacy_constructor(fs, options) ==
    LET ns == legacy_options_ns(options.ns)
        dir == legacy_constructor_dir(options.dir, ns)
    IN  [options |-> options,
         ns |-> ns,
         dir |-> dir,
         defaultTTL |-> legacy_constructor_defaultTTL(options.ttl),
         cache |-> load(fs, ns, dir)]

\* The single-instance variables are not used by these specifications.
InitInstances ==
    /\ now = 0
    /\ defaultTTL = Null
    /\ store = EmptyStore
    /\ fileExists = FALSE
    /\ ref = EmptyRef
    /\ last = NoCall
    /\ instances = NoInstances
    /\ files = NoFiles

Cache_new(i, object) ==
    /\ i \notin DOMAIN instances
    /\ instances' = [j \in (DOMAIN instances) \cup {i} |->
                        IF j = i THEN object ELSE instances[j]]
    /\ UNCHANGED <<now, defaultTTL, store, fileExists, ref, last, files>>

Cache_set(i, key, value, ttlArg) ==
    /\ i \in DOMAIN instances
    /\ instances' = [instances EXCEPT ![i].cache =
          setKey(@, key, set_data(value, ttlArg, instances[i].defaultTTL, now))]
    /\ UNCHANGED <<now, defaultTTL, store, fileExists, ref, last, files>>

Cache_get(i, key) ==
    /\ i \in DOMAIN instances
    /\ instances' = [instances EXCEPT ![i].cache = invalidateKey_store(@, key, now)]
    /\ UNCHANGED <<now, defaultTTL, store, fileExists, ref, last, files>>

Cache_del(i, key) ==
    /\ i \in DOMAIN instances
    /\ instances' = [instances EXCEPT ![i].cache = removeKey(@, key)]
    /\ UNCHANGED <<now, defaultTTL, store, fileExists, ref, last, files>>

Cache_ttl(i, key) ==
    /\ i \in DOMAIN instances
    /\ instances' = [instances EXCEPT ![i].cache = invalidateKey_store(@, key, now)]
    /\ UNCHANGED <<now, defaultTTL, store, fileExists, ref, last, files>>

Cache_all(i) ==
    /\ i \in DOMAIN instances
    /\ instances' = [instances EXCEPT ![i].cache = all_store(@, now)]
    /\ UNCHANGED <<now, defaultTTL, store, fileExists, ref, last, files>>

\* save(): this.cache.save(noPrune) writes the mapping to the store's file.
Cache_save(i) ==
    /\ i \in DOMAIN instances
    /\ files' = writeFile(files, instances[i].ns, instances[i].dir, instances[i].cache)
    /\ UNCHANGED <<now, defaultTTL, store, fileExists, ref, last, instances>>

\* destroy(): this.cache.destroy() empties the mapping and removes the file.
Cache_destroy(i) ==
    /\ i \in DOMAIN instances
    /\ instances' = [instances EXCEPT ![i].cache = EmptyStore]
    /\ files' = removeCacheFile(files, instances[i].ns, instances[i].dir)
    /\ UNCHANGED <<now, defaultTTL, store, fileExists, ref, last>>

\* The options, keys and ttl arguments tried with several instances.
InstanceOptions == Options({Absent, Str("n1")}, {DataDir}, {Absent})
InstanceKeys == {"a"}
InstanceTTLs == {Undefined, Num(MaxTTL)}

newInstance ==
    \E i \in InstanceIds, options \in InstanceOptions :
        Cache_new(i, constructor(files, options))

setInstance ==
    \E i \in InstanceIds, key \in InstanceKeys, value \in Values, ttlArg \in InstanceTTLs :
        Cache_set(i, key, value, ttlArg)

getInstance == \E i \in InstanceIds, key \in InstanceKeys : Cache_get(i, key)

delInstance == \E i \in InstanceIds, key \in InstanceKeys : Cache_del(i, key)

ttlInstance == \E i \in InstanceIds, key \in InstanceKeys : Cache_ttl(i, key)

allInstance == \E i \in InstanceIds : Cache_all(i)

saveInstance == \E i \in InstanceIds : Cache_save(i)

destroyInstance == \E i \in InstanceIds : Cache_destroy(i)

NextInstances ==
    Tick \/ newInstance \/ setInstance \/ getInstance \/ delInstance \/ ttlInstance
        \/ allInstance \/ saveInstance \/ destroyInstance

SpecInstances == InitInstances /\ [][NextInstances]_vars

\* ------------------------------------------------------- the constructors
\* Every combination of the ns, dir and ttl options, with either constructor.
ConstructorOptions == Options(NsOptions, DirOptions, TTLOptions)

newCache ==
    \E i \in InstanceIds, options \in ConstructorOptions :
        Cache_new(i, constructor(files, options))

legacy_newCache ==
    \E i \in InstanceIds, options \in ConstructorOptions :
        Cache_new(i, legacy_constructor(files, options))

NextConstructor == newCache \/ legacy_newCache

SpecConstructor == InitInstances /\ [][NextConstructor]_vars

\* ------------------------------------------------------------------ claims
\* The instant t lies after the expiry instant (if there is one).
Past(expires, t) == expires.kind = "date" /\ expires.t < t
\* The reference map: a key is live when its most recent set has not been
\* undone by del or destroy and its expiry instant has not passed.
RefLive(k) == k \in DOMAIN ref /\ ~Past(ref[k].expires, now)
RefGet(k) == IF RefLive(k) THEN Val(ref[k].value) ELSE Null
RefAll == [k \in {j \in DOMAIN ref : RefLive(j)} |-> Val(ref[k].value)]
\* The ttl argument of a set call that passes no ttl or a positive one.
NoOrPositiveTTL(ttlArg) == ttlArg = Undefined \/ (ttlArg.kind = "num" /\ ttlArg.n > 0)

\* C1: after any sequence of calls and clock advances, get(k) returns the
\* value of the most recent set(k) when that set has not been followed by
\* del(k) or destroy() and its expiry instant has not passed, and null
\* otherwise; all() returns exactly the live keys, each mapped to that value.
C1_ReferenceMap ==
    /\ \A k \in Keys : get_ret(store, k, now) = RefGet(k)
    /\ all_ret(store, now) = RefAll
    /\ last.op = "get" => last.ret = RefGet(last.key)
    /\ last.op = "all" => last.map = RefAll

\* all() has just returned one live key while evicting another, expired one.
C1_Witness ==
    /\ last.op = "all"
    /\ \E k \in DOMAIN last.map, j \in last.present :
          j \notin DOMAIN last.map /\ j \notin DOMAIN store /\ j \in DOMAIN ref

\* C2: set(k, v) or set(k, v, t) with t > 0, followed immediately (no clock
\* advance) by get(k), returns v.
C2_RoundTrip ==
    (last.op = "set" /\ NoOrPositiveTTL(ref[last.key].ttl))
        => get_ret(store, last.key, now) = Val(ref[last.key].value)

\* C3: after set(k, v, t) with t > 0 and no later set/del/destroy on k,
\* get(k) returns v while fewer than t seconds have elapsed; once more than
\* t seconds have elapsed get(k) returns null, and all() after it does not
\* include k.
C3_Expiry ==
    \A k \in DOMAIN ref :
        (ref[k].ttl.kind = "num" /\ ref[k].ttl.n > 0) =>
            /\ (now - ref[k].at < ref[k].ttl.n) =>
                  /\ get_ret(store, k, now) = Val(ref[k].value)
                  /\ (last.op = "get" /\ last.key = k) => last.ret = Val(ref[k].value)
            /\ (now - ref[k].at > ref[k].ttl.n) =>
                  /\ get_ret(store, k, now) = Null
                  /\ k \notin DOMAIN all_ret(invalidateKey_store(store, k, now), now)
                  /\ (last.op = "get" /\ last.key = k) =>
                        /\ last.ret = Null
                        /\ k \notin DOMAIN store
                        /\ k \notin DOMAIN all_ret(store, now)

\* get(k) has just evicted an entry set with a positive ttl more than ttl
\* seconds ago.
C3_Witness ==
    /\ last.op = "get"
    /\ last.key \in last.present
    /\ last.key \in DOMAIN ref
    /\ ref[last.key].ttl.kind = "num"
    /\ ref[last.key].ttl.n > 0
    /\ now - ref[last.key].at > ref[last.key].ttl.n
    /\ last.ret = Null

\* A ttl the claim calls valid: a non-negative number.
ValidTTL(x) == x.kind = "num" /\ x.n >= 0
\* The expiry C4 states for set(k, v, ttlArg) at time t.
C4_expires(ttlArg, dflt, t) ==
    IF ValidTTL(ttlArg) THEN Date(t + ttlArg.n)
    ELSE IF ValidTTL(dflt) THEN Date(t + dflt.n)
    ELSE NoExpires

\* C4: set(k, v, ttl) stores the expiry now + ttl when ttl is a valid
\* non-negative number (0 included), else now + defaultTTL when a valid
\* default is configured, else no expiry.
C4_EffectiveTTL ==
    last.op = "set" =>
        store[last.key].expires = C4_expires(ref[last.key].ttl, defaultTTL, now)

\* C5: with no default TTL configured, an entry written by set(k, v) without
\* a ttl is never expired by the clock: it stays in the store as written and
\* get(k) returns v, until a set(k), del(k) or destroy().
C5_NoTTLPersists ==
    defaultTTL = Null =>
        \A k \in DOMAIN ref :
            ref[k].ttl = Undefined =>
                /\ hasKey(store, k)
                /\ store[k] = Entry(NoExpires, ref[k].value)
                /\ get_ret(store, k, now) = Val(ref[k].value)
                /\ (last.op = "get" /\ last.key = k) => last.ret = Val(ref[k].value)

\* get(k) has just returned v two or more seconds after a set(k, v) without
\* ttl on a cache without default TTL.
C5_Witness ==
    /\ defaultTTL = Null
    /\ last.op = "get"
    /\ last.key \in DOMAIN ref
    /\ ref[last.key].ttl = Undefined
    /\ now - ref[last.key].at >= 2
    /\ last.ret = Val(ref[last.key].value)

\* C6: del(k) returns true when an entry for k (live or expired but not yet
\* evicted) was in the store and a false result when k was absent, and after
\* it get(k) returns null.  For an absent key any falsy result is accepted.
C6_DelReturnsBoolean ==
    last.op = "del" =>
        /\ (last.key \in last.present) => last.ret = Bool(TRUE)
        /\ (last.key \notin last.present) => last.ret \in {Bool(FALSE), Undefined, Null}
        /\ get_ret(store, last.key, now) = Null

C8_LazyEviction ==
    (last.op \in {"get", "ttl"} /\ last.key \in last.present
        /\ Past(ref[last.key].expires, now)) =>
            /\ last.key \notin DOMAIN store
            /\ last.ret = Null
            /\ last.key \notin DOMAIN all_ret(store, now)

\* ttl(k) has just been called on an expired entry the store still held.
C8_Witness ==
    /\ last.op = "ttl"
    /\ last.key \in last.present
    /\ Past(ref[last.key].expires, now)
    /\ last.key \notin DOMAIN store

\* C9: all() never returns an expired entry: no key whose expiry instant is
\* in the past appears as a key of the returned mapping (not even mapped to
\* null), every such key is out of the store when all() returns, and every
\* other key appears mapped to its raw value.
C9_AllOmitsExpired ==
    last.op = "all" =>
        \A k \in last.present :
            /\ Past(ref[k].expires, now) =>
                  (k \notin DOMAIN last.map /\ k \notin DOMAIN store)
            /\ ~Past(ref[k].expires, now) =>
                  (k \in DOMAIN last.map /\ last.map[k] = Val(ref[k].value))

\* C10: all() does not alter the stored entry of any live key: the store
\* holds the same {expires, value} envelope afterwards, get(k) returns the
\* same value and ttl(k) the same remaining time.
C10_AllKeepsLiveEntries ==
    last.op = "all" =>
        \A k \in last.present :
            ~Past(ref[k].expires, now) =>
                /\ hasKey(store, k)
                /\ store[k] = Entry(ref[k].expires, ref[k].value)
                /\ get_ret(store, k, now) = Val(ref[k].value)
                /\ invalidateKey(store, k, now) =
                      (IF ref[k].expires.kind = "date"
                       THEN Str(humanize(ref[k].expires.t - now)) ELSE Null)

\* all() has just run over a store holding a live entry with an expiry.
C10_Witness ==
    /\ last.op = "all"
    /\ \E k \in last.present :
          ref[k].expires.kind = "date" /\ ~Past(ref[k].expires, now) /\ k \in DOMAIN last.map

\* C11: after destroy(), get(k) returns null and ttl(k) reports expires null
\* for every key and all() returns the empty mapping, and this lasts for
\* every key until it is set again; a set(k, v) then makes get(k) return v.
C11_DestroyEmpties ==
    /\ \A k \in Keys \ DOMAIN ref :
          /\ get_ret(store, k, now) = Null
          /\ invalidateKey(store, k, now) = Null
          /\ k \notin DOMAIN all_ret(store, now)
    /\ last.op = "destroy" =>
          /\ DOMAIN ref = {}
          /\ all_ret(store, now) = EmptyMap
          /\ \A k \in Keys, v \in Values :
                get_ret(setKey(store, k, set_data(v, Undefined, defaultTTL, now)), k, now)
                    = Val(v)

\* The namespace an instance was constructed with.
NamespaceGiven(c) == IF c.options.ns = Absent THEN "default" ELSE c.options.ns.val
\* What get, ttl and all answer on instance c at time t.
Observed(c, t) ==
    [get |-> [k \in Keys |-> get_ret(c.cache, k, t)],
     ttl |-> [k \in Keys |-> invalidateKey(c.cache, k, t)],
     all |-> all_ret(c.cache, t)]
\* The content of the file instance c is bound to, if the file exists.
FileOf(fs, c) ==
    IF cacheFile(c.ns, c.dir) \in DOMAIN fs THEN <<fs[cacheFile(c.ns, c.dir)]>> ELSE <<>>

\* C12: a call on one instance (a step that changes its entries or its
\* file: set, del, get, ttl, all, save or destroy) leaves the answers of
\* get, ttl and all on every instance constructed with a different
\* namespace as they were, and leaves that instance's file as it was.
C12_NamespaceIsolation ==
    [][\A i \in DOMAIN instances, j \in DOMAIN instances :
          (/\ NamespaceGiven(instances[i]) # NamespaceGiven(instances[j])
           /\ \/ instances'[i] # instances[i]
              \/ FileOf(files', instances[i]) # FileOf(files, instances[i]))
              => /\ Observed(instances'[j], now') = Observed(instances[j], now)
                 /\ FileOf(files', instances'[j]) = FileOf(files, instances[j])]_vars

\* Two instances of different namespaces share a directory; one has been
\* written and saved, the other still holds nothing, in memory or on file.
C12_Witness ==
    \E i \in DOMAIN instances, j \in DOMAIN instances :
        /\ NamespaceGiven(instances[j]) # NamespaceGiven(instances[i])
        /\ instances[j].dir = instances[i].dir
        /\ "a" \in DOMAIN instances[j].cache
        /\ FileOf(files, instances[j]) # <<>>
        /\ "a" \in DOMAIN FileOf(files, instances[j])[1]
        /\ instances[i].cache = EmptyStore
        /\ FileOf(files, instances[i]) = <<>>

\* The expiry instant of an entry, if it has one.
Instant(expires) == IF expires.kind = "null" THEN <<>> ELSE <<expires.t>>
\* Two mappings hold the same keys with the same values and expiry instants.
SameEntries(s1, s2) ==
    /\ DOMAIN s1 = DOMAIN s2
    /\ \A k \in DOMAIN s1 :
          s1[k].value = s2[k].value /\ Instant(s1[k].expires) = Instant(s2[k].expires)
\* What get(k) answers at time t on an instance that holds mapping s.
SavedGet(s, k, t) ==
    IF k \in DOMAIN s /\ (Instant(s[k].expires) = <<>> \/ Instant(s[k].expires)[1] >= t)
    THEN Val(s[k].value)
    ELSE Null

\* C13: save() leaves in the file exactly the saving instance's entries,
\* values and expiry instants, and an instance constructed on that
\* namespace and directory afterwards holds exactly the file's keys with
\* the same values and the same expiry instants (an entry whose instant has
\* passed is not revived); with no file it holds nothing.
C13_Restart ==
    [][/\ \A i \in DOMAIN instances :
             (/\ FileOf(files', instances[i]) # FileOf(files, instances[i])
              /\ FileOf(files', instances[i]) # <<>>)
                 => \E s \in DOMAIN instances :
                       /\ cacheFile(instances[s].ns, instances[s].dir)
                              = cacheFile(instances[i].ns, instances[i].dir)
                       /\ SameEntries(FileOf(files', instances[i])[1], instances[s].cache)
       /\ \A j \in (DOMAIN instances') \ (DOMAIN instances) :
             LET c == instances'[j]
             IN  IF FileOf(files, c) # <<>>
                 THEN /\ SameEntries(c.cache, FileOf(files, c)[1])
                      /\ \A k \in Keys :
                            get_ret(c.cache, k, now) = SavedGet(FileOf(files, c)[1], k, now)
                 ELSE c.cache = EmptyStore]_vars

\* An instance holds an entry read from the file another instance of the
\* same namespace and directory saved: its expiry is the ISO string, and
\* that instant has passed.
C13_Witness ==
    \E i \in DOMAIN instances, j \in DOMAIN instances :
        /\ i # j
        /\ instances[i].ns = instances[j].ns
        /\ instances[i].dir = instances[j].dir
        /\ "a" \in DOMAIN instances[j].cache
        /\ instances[j].cache["a"].expires.kind = "iso"
        /\ instances[j].cache["a"].expires.t < now

\* C14: whatever the ttl option, the constructed instance's default TTL is
\* null or a non-negative number: null for an absent (or undefined) or
\* non-numeric option, the number itself for a non-negative number.  For a
\* ttl option of null both null and 0 are accepted.
C14_DefaultTTL ==
    \A i \in DOMAIN instances :
        LET c == instances[i]
            ttlOption == c.options.ttl
        IN  /\ c.defaultTTL = Null \/ (c.defaultTTL.kind = "num" /\ c.defaultTTL.n >= 0)
            /\ ttlOption \in {Absent, Undefined, NonNumeric} => c.defaultTTL = Null
            /\ (ttlOption.kind = "num" /\ ttlOption.n >= 0) => c.defaultTTL = ttlOption

\* C15: the store is opened at the caller's directory when one is given and
\* its parent exists, and at tmpdir/cache/<namespace> in every other case.
C15_DirectoryResolution ==
    \A i \in DOMAIN instances :
        LET c == instances[i]
            dir == c.options.dir
        IN  c.dir = IF dir # Absent /\ dirname(dir) \in ExistingDirs
                    THEN dir
                    ELSE <<"tmp", "cache", NamespaceGiven(c)>>

\* C16: the expiry instant the store holds for a key is the one the most
\* recent set on that key stored, whatever has been called since (get, ttl,
\* all, save, calls on other keys): an entry set at time T with a ttl t > 0
\* has expiry T + t until it is set again, deleted or evicted.
C16_NoSlidingExpiration ==
    \A k \in DOMAIN store :
        /\ k \in DOMAIN ref
        /\ store[k].expires = ref[k].expires
        /\ (ref[k].ttl.kind = "num" /\ ref[k].ttl.n > 0) =>
              store[k].expires = Date(ref[k].at + ref[k].ttl.n)

\* get(k) has just read, later than its set, a live entry that has an expiry.
C16_Witness ==
    /\ last.op = "get"
    /\ last.key \in DOMAIN store
    /\ store[last.key].expires.kind = "date"
    /\ now > ref[last.key].at
    /\ last.ret = Val(ref[last.key].value)

\* C17: set(k, v2, ttl) leaves for k exactly the entry computed from this
\* call: value v2, expiry now + effective TTL, or no expiry when there is no
\* effective TTL; and whatever set is made on a key whose entry has expired
\* but is still stored, the key is live again (get returns the new value).
C17_SetReplaces ==
    /\ last.op = "set" =>
          LET e == effectiveTTL(ref[last.key].ttl, defaultTTL)
          IN  /\ store[last.key].value = ref[last.key].value
              /\ e # 0 => store[last.key].expires = Date(now + e)
              /\ e = 0 => store[last.key].expires = NoExpires
    /\ \A k \in DOMAIN store :
          Past(store[k].expires, now) =>
              \A v \in Values, ttlArg \in TTLInputs :
                  get_ret(setKey(store, k, set_data(v, ttlArg, defaultTTL, now)), k, now)
                      = Val(v)

\* C18: get(k), ttl(k), set(k, ...) and del(k) leave every other key as it
\* was: a key absent before is absent after, a key stored before is stored
\* after with the value and expiry its own most recent set stored, also when
\* that expiry has passed.
C18_SingleKeyFrame ==
    last.op \in {"get", "ttl", "set", "del"} =>
        \A j \in Keys \ {last.key} :
            /\ j \in last.present <=> j \in DOMAIN store
            /\ j \in DOMAIN store =>
                  (j \in DOMAIN ref /\ store[j] = Entry(ref[j].expires, ref[j].value))

\* get(k) or ttl(k) has just run while another key's entry, already
\* expired, stays in the store.
C18_Witness ==
    /\ last.op \in {"get", "ttl"}
    /\ \E j \in (DOMAIN store) \ {last.key} : Past(store[j].expires, now)

\* C19: at every state and instant, k is a key of all() exactly when its
\* entry is stored and not expired, which is exactly when get(k) returns a
\* value; all()[k] is then what get(k) returns; a non-null ttl(k).expires
\* implies k is in all(); and each read answers the same before and after
\* any other read.
C19_ReadsAgree ==
    LET allNow == all_ret(store, now)
        afterAll == all_store(store, now)
    IN  \A k \in Keys :
            LET getNow == get_ret(store, k, now)
                ttlNow == invalidateKey(store, k, now)
            IN  /\ k \in DOMAIN allNow <=> (hasKey(store, k) /\ ~Past(store[k].expires, now))
                /\ k \in DOMAIN allNow <=> getNow # Null
                /\ k \in DOMAIN allNow => allNow[k] = getNow
                /\ ttlNow # Null => k \in DOMAIN allNow
                /\ get_ret(afterAll, k, now) = getNow
                /\ invalidateKey(afterAll, k, now) = ttlNow
                /\ all_ret(invalidateKey_store(store, k, now), now) = allNow
                /\ \A j \in Keys :
                      /\ get_ret(invalidateKey_store(store, j, now), k, now) = getNow
                      /\ invalidateKey(invalidateKey_store(store, j, now), k, now) = ttlNow

\* ttl(k) has just reported the remaining time of a live key, which all()
\* would return, while the store still holds an expired key, which all()
\* would leave out and get would report as null.
C19_Witness ==
    /\ last.op = "ttl"
    /\ last.ret.kind = "string"
    /\ last.key \in DOMAIN all_ret(store, now)
    /\ \E j \in DOMAIN store :
          j \notin DOMAIN all_ret(store, now) /\ get_ret(store, j, now) = Null

\* C20: an entry is expired only when the clock is strictly later than its
\* expiry instant: at the instant equal to it (exactly t seconds after
\* set(k, v, t)) get(k) returns v, all() includes k and neither evicts it;
\* and whenever get or ttl has evicted a key, its expiry instant was
\* strictly before the clock.
C20_StrictBoundary ==
    /\ \A k \in DOMAIN ref :
          (ref[k].ttl.kind = "num" /\ ref[k].ttl.n > 0 /\ now = ref[k].at + ref[k].ttl.n) =>
              /\ hasKey(store, k)
              /\ store[k].expires = Date(now)
              /\ get_ret(store, k, now) = Val(ref[k].value)
              /\ k \in DOMAIN all_ret(store, now)
              /\ all_ret(store, now)[k] = Val(ref[k].value)
              /\ invalidateKey_store(store, k, now) = store
              /\ hasKey(all_store(store, now), k)
              /\ (last.op = "get" /\ last.key = k) => last.ret = Val(ref[k].value)
              /\ last.op = "all" => (k \in DOMAIN last.map /\ last.map[k] = Val(ref[k].value))
    /\ (last.op \in {"get", "ttl"} /\ last.key \in last.present
           /\ last.key \notin DOMAIN store) => ref[last.key].expires.t < now

\* get(k) has just returned v exactly t seconds after set(k, v, t).
C20_Witness ==
    /\ last.op = "get"
    /\ last.key \in DOMAIN ref
    /\ ref[last.key].ttl.kind = "num"
    /\ ref[last.key].ttl.n > 0
    /\ now = ref[last.key].at + ref[last.key].ttl.n
    /\ last.ret = Val(ref[last.key].value)
    /\ last.key \in DOMAIN store

====
